---- MODULE Spec2Model ----
(***************************************************************************)
(* A model of smallvec::SmallVec<T, N> (include/SmallVec.hpp): a vector    *)
(* that keeps up to N elements in an inline array and moves to a malloc'ed *)
(* buffer beyond that.  The object's fields (impl, cap, len), the C heap   *)
(* it allocates from and every public method are modelled; each method is  *)
(* an operator from the state before the call to the state after it.       *)
(***************************************************************************)
EXTENDS Integers, Sequences, FiniteSets, TLC

(* ----------------------------- bounds --------------------------------- *)

\* The template parameter N: the number of inline slots.
N == 2
\* Calls that would make len exceed MaxLen are not explored.
MaxLen == 5
\* Calls that would ask for more than MaxCap slots are not explored.
MaxCap == 8
\* The heap hands out at most MaxAllocs blocks in one run.
MaxAllocs == 2
\* reserve/reserveExact are called with additional in 1..MaxAdd.
MaxAdd == 3
\* extendConsuming/extendCopying get ranges of at most MaxExt elements.
MaxExt == 2
\* The literal arrays given to the array constructor have 1..MaxLit elements.
MaxLit == 5
\* sizeof(T), in bytes, of the element type the buffer is instantiated with.
SizeofT == 4
\* A run of counted pushes has at most MaxPushes of them.
MaxPushes == 9
\* With two objects alive, calls that would make a len exceed MaxLenTwo are
\* not explored.
MaxLenTwo == 3

(* --------------------------- value domains ---------------------------- *)

\* std::size_t is SizeBits wide; its arithmetic is modulo SizeMod.
SizeBits == 6
SizeMod == 2 ^ SizeBits

\* The element values the callers store.
Values == {1, 2}
\* T{}: the value of a value-initialised element.
Dflt == 0
\* An indeterminate element: uninitialised malloc memory, the bytes of the
\* union read through the member that was not written last, freed memory.
Garbage == -1
Slot == Values \cup {Dflt, Garbage}

\* Pointer values: 1..MaxAllocs are the blocks malloc has handed out,
\* Null is nullptr, Wild is any other bit pattern.
Null == 0
Wild == -1
BlockIds == 1 .. MaxAllocs

(* ------------------------------ C heap -------------------------------- *)
\* A heap h is a record:
\*   blk  : BlockIds -> {"unused", "live", "freed"}
\*   data : BlockIds -> sequence of Slot (the block's elements, index 0 first)
\*   rel  : BlockIds -> number of times free()/realloc() released the block
\*   wild : number of free() calls on a pointer that is no block
\*   ub   : TRUE once the program has executed undefined behaviour

EmptyHeap ==
  [blk  |-> [b \in BlockIds |-> "unused"],
   data |-> [b \in BlockIds |-> <<>>],
   rel  |-> [b \in BlockIds |-> 0],
   wild |-> 0,
   ub   |-> FALSE]

IsLive(h, p) == p \in BlockIds /\ h.blk[p] = "live"

Unused(h) == {b \in BlockIds : h.blk[b] = "unused"}

\* The block the next successful allocation returns.
NextBlock(h) == CHOOSE b \in Unused(h) : \A c \in Unused(h) : b <= c

\* Number of blocks allocated so far, and number of release calls so far.
NumAllocs(h) == Cardinality(BlockIds \ Unused(h))

RECURSIVE SumRel(_, _)
SumRel(h, S) ==
  IF S = {} THEN 0
  ELSE LET b == CHOOSE x \in S : TRUE IN h.rel[b] + SumRel(h, S \ {b})

NumFrees(h) == SumRel(h, BlockIds) + h.wild

Fresh(n) == [i \in 1 .. n |-> Garbage]

\* malloc(n * sizeof(T)) succeeding: a new block of n indeterminate slots.
Malloc(h, n) ==
  LET b == NextBlock(h) IN
  [h EXCEPT !.blk[b] = "live", !.data[b] = Fresh(n)]

\* free(p).  free(nullptr) does nothing; releasing a block that is not live
\* (a second release) or a pointer that is no block is undefined behaviour.
Free(h, p) ==
  IF p = Null THEN h
  ELSE IF IsLive(h, p)
    THEN [h EXCEPT !.blk[p] = "freed", !.data[p] = <<>>, !.rel[p] = @ + 1]
  ELSE IF p \in BlockIds
    THEN [h EXCEPT !.rel[p] = @ + 1, !.ub = TRUE]
  ELSE [h EXCEPT !.wild = @ + 1, !.ub = TRUE]

\* The first n slots of a block's contents, padded with indeterminate slots.
Resized(d, n) == [i \in 1 .. n |-> IF i <= Len(d) THEN d[i] ELSE Garbage]

\* realloc(p, n * sizeof(T)) succeeding on a live block p.  The block is
\* resized in place, or (moved) its contents go to a new block and p is
\* released.  The result is <<new heap, returned pointer>>.
Realloc(h, p, n, moved) ==
  IF ~IsLive(h, p) THEN <<[h EXCEPT !.ub = TRUE], p>>
  ELSE IF moved
    THEN LET b == NextBlock(h) IN
         <<[h EXCEPT !.blk[b] = "live", !.data[b] = Resized(h.data[p], n),
                     !.blk[p] = "freed", !.data[p] = <<>>, !.rel[p] = @ + 1], b>>
  ELSE <<[h EXCEPT !.data[p] = Resized(h.data[p], n)], p>>

\* Reading slot i (from 0) of block p.
Load(h, p, i) ==
  IF IsLive(h, p) /\ i < Len(h.data[p]) THEN h.data[p][i + 1] ELSE Garbage

(* --------------------------- the object ------------------------------- *)
\* A SmallVec v is a record:
\*   stack : 0..N-1 -> Slot   (impl.stack)
\*   heap  : pointer          (impl.heap; the union shares the bytes of stack)
\*   cap, len : std::size_t

Sub(a, b) == (a - b + SizeMod) % SizeMod
Add(a, b) == (a + b) % SizeMod

onHeap(v) == v.cap > N
onStack(v) == ~onHeap(v)

\* The pointer impl.heap holds after the inline array was written: the
\* bytes of the array, which are nullptr only if they are all zero.
HeapBits(stack) == IF \A i \in 0 .. N - 1 : stack[i] = Dflt THEN Null ELSE Wild

\* The inline array after impl.heap was assigned: pointer bytes.
StackBits == [i \in 0 .. N - 1 |-> Garbage]

\* explicit SmallVec(): impl({.stack = {}}), cap(N), len(0)
SmallVec ==
  [stack |-> [i \in 0 .. N - 1 |-> Dflt], heap |-> Null, cap |-> N, len |-> 0]

\* ptr()[i] read: operator[](i).
At(v, h, i) ==
  IF onHeap(v) THEN Load(h, v.heap, i)
  ELSE IF i < N THEN v.stack[i] ELSE Garbage

\* Whether ptr() points at storage the object owns.
StorageLive(v, h) == onStack(v) \/ IsLive(h, v.heap)

\* The elements [0, len) as a sequence.
Elements(v, h) == [i \in 1 .. v.len |-> At(v, h, i - 1)]

size(v) == v.len
capacity(v) == v.cap


(* ------------------------ writes through ptr() ------------------------ *)

\* What a write past the end of the inline array does.  impl.stack is the
\* first member of the object and cap and len follow it, so the write lands
\* on cap, on len, or on memory outside the object.
NoOob == [field |-> "none", val |-> 0]
OobOutcomes ==
  {NoOob} \cup
  {[field |-> f, val |-> x] : f \in {"cap", "len"}, x \in 0 .. MaxCap}

\* dest[i] = x, where dest is ptr() as evaluated before the write
\* (toHeap: impl.heap, otherwise impl.stack).  The result is [v, h].
StoreTo(toHeap, v, h, i, x, oob) ==
  IF toHeap
    THEN IF IsLive(h, v.heap) /\ i < Len(h.data[v.heap])
           THEN [v |-> v, h |-> [h EXCEPT !.data[v.heap][i + 1] = x]]
           ELSE [v |-> v, h |-> [h EXCEPT !.ub = TRUE]]
  ELSE IF i < N
    THEN LET st == [v.stack EXCEPT ![i] = x] IN
         [v |-> [v EXCEPT !.stack = st, !.heap = HeapBits(st)], h |-> h]
  ELSE [v |-> CASE oob.field = "cap" -> [v EXCEPT !.cap = oob.val]
                []   oob.field = "len" -> [v EXCEPT !.len = oob.val]
                []   OTHER -> v,
        h |-> [h EXCEPT !.ub = TRUE]]

\* std::swap_ranges / std::copy of the range xs to dest + i.
RECURSIVE StoreRange(_, _, _, _, _, _)
StoreRange(toHeap, v, h, i, xs, oob) ==
  IF xs = <<>> THEN [v |-> v, h |-> h]
  ELSE LET w == StoreTo(toHeap, v, h, i, Head(xs), oob) IN
       StoreRange(toHeap, w.v, w.h, i + 1, Tail(xs), oob)

(* ----------------------------- methods -------------------------------- *)
\* Every method maps the object v and the heap h to a record
\* [v, h, thrown]: the object and the heap when the call returns, and
\* whether it returned by throwing std::runtime_error.  alloc is what the
\* allocation the call makes does: "fail" (malloc/realloc returns nullptr),
\* "moved" (it succeeds; realloc returns a different block) or "ok" (it
\* succeeds; realloc resizes the block in place).

Ret(v, h) == [v |-> v, h |-> h, thrown |-> FALSE]
Throw(v, h) == [v |-> v, h |-> h, thrown |-> TRUE]

\* InlineFromHeap with the range one element short (heapPtr + len - 1).
InlineFromHeapShort(v, h, heapPtr) ==
  [i \in 0 .. N - 1 |-> IF i < v.len - 1 THEN Load(h, heapPtr, i) ELSE v.stack[i]]

\* std::swap_ranges(heapPtr, heapPtr + len, impl.stack): the inline array
\* after the first len elements of the heap block were swapped into it.
InlineFromHeap(v, h, heapPtr) ==
  [i \in 0 .. N - 1 |-> IF i < v.len THEN Load(h, heapPtr, i) ELSE v.stack[i]]

\* HeapFromInline with the range one element short (impl.stack + N - 1).
HeapFromInlineShort(v, newSize) ==
  [i \in 1 .. newSize |-> IF i < N THEN v.stack[i - 1] ELSE Garbage]

\* std::swap_ranges(impl.stack, impl.stack + N, memory): the new block of
\* newSize slots after the N inline slots were swapped into it.
HeapFromInline(v, newSize) ==
  [i \in 1 .. newSize |-> IF i <= N THEN v.stack[i - 1] ELSE Garbage]

\* void grow(std::size_t newSize), called with newSize >= len (the assert).
grow(v, h, newSize, alloc) ==
  IF newSize <= N
    THEN IF onStack(v) THEN Ret(v, h)
         ELSE LET heapPrt == v.heap
                  st == InlineFromHeap(v, h, heapPrt)
              IN Ret([v EXCEPT !.stack = st,
                               !.heap = IF v.len > 0 THEN HeapBits(st) ELSE heapPrt,
                               !.cap = newSize],
                     Free(h, heapPrt))
  ELSE IF newSize /= v.cap
    THEN IF onStack(v)
           THEN IF alloc = "fail" THEN Throw(v, h)
                ELSE LET memory == NextBlock(h)
                         h1 == Malloc(h, newSize)
                         d == HeapFromInline(v, newSize)
                     IN Ret([v EXCEPT !.stack = StackBits, !.heap = memory,
                                      !.cap = newSize],
                            [h1 EXCEPT !.data[memory] = d])
         ELSE IF alloc = "fail" THEN Throw(v, Free(h, v.heap))
              ELSE LET r == Realloc(h, v.heap, newSize, alloc = "moved") IN
                   Ret([v EXCEPT !.heap = r[2], !.cap = newSize], r[1])
  ELSE Ret([v EXCEPT !.cap = newSize], h)

\* The lambda nextPowerOfTwo of reserve: result = 1; while (n > result) result <<= 1.
RECURSIVE nextPowerOfTwoFrom(_, _)
nextPowerOfTwoFrom(n, result) ==
  IF n > result THEN nextPowerOfTwoFrom(n, (result * 2) % SizeMod) ELSE result

\* A nextPowerOfTwo that returns n: the buffer grows to exactly what is
\* asked for.
nextPowerOfTwoLinear(n) == n

nextPowerOfTwo(n) == nextPowerOfTwoFrom(n, 1)

\* void reserve(std::size_t additional)
reserve(v, h, additional, alloc) ==
  IF Sub(v.cap, v.len) >= additional THEN Ret(v, h)
  ELSE grow(v, h, nextPowerOfTwo(Add(v.len, additional)), alloc)

\* void reserveExact(std::size_t additional)
reserveExact(v, h, additional, alloc) ==
  IF Sub(v.cap, v.len) >= additional THEN Ret(v, h)
  ELSE grow(v, h, Add(v.len, additional), alloc)

\* void shrink()
shrink(v, h, alloc) ==
  IF onStack(v) THEN Ret(v, h)
  ELSE IF N >= v.len
    THEN LET heapPtr == v.heap
             st == InlineFromHeap(v, h, heapPtr)
         IN Ret([v EXCEPT !.stack = st,
                          !.heap = IF v.len > 0 THEN HeapBits(st) ELSE heapPtr,
                          !.cap = v.len],
                Free(h, heapPtr))
  ELSE IF v.cap > v.len THEN grow(v, h, v.len, alloc)
  ELSE Ret(v, h)

\* push that reserves only once len has passed cap (len > cap for len == cap).
pushLateReserve(v, h, value, alloc, oob) ==
  LET r == IF v.len > v.cap THEN reserve(v, h, 1, alloc) ELSE Ret(v, h) IN
  IF r.thrown THEN r
  ELSE LET w == StoreTo(onHeap(r.v), r.v, r.h, r.v.len, value, oob) IN
       Ret([w.v EXCEPT !.len = Add(@, 1)], w.h)

\* void push(U &&value)
push(v, h, value, alloc, oob) ==
  LET r == IF v.len = v.cap THEN reserve(v, h, 1, alloc) ELSE Ret(v, h) IN
  IF r.thrown THEN r
  ELSE LET w == StoreTo(onHeap(r.v), r.v, r.h, r.v.len, value, oob) IN
       Ret([w.v EXCEPT !.len = Add(@, 1)], w.h)

\* void extendConsuming(Iter begin, Iter end); xs is the range [begin, end).
extendConsuming(v, h, xs, alloc, oob) ==
  LET r == reserveExact(v, h, Len(xs), alloc) IN
  IF r.thrown THEN r
  ELSE LET w == StoreRange(onHeap(r.v), r.v, r.h, r.v.len, xs, oob) IN
       Ret([w.v EXCEPT !.len = Add(@, Len(xs))], w.h)

\* void extendCopying(Iter begin, Iter end)
extendCopying(v, h, xs, alloc, oob) ==
  LET r == reserveExact(v, h, Len(xs), alloc) IN
  IF r.thrown THEN r
  ELSE LET w == StoreRange(onHeap(r.v), r.v, r.h, r.v.len, xs, oob) IN
       Ret([w.v EXCEPT !.len = Add(@, Len(xs))], w.h)

\* The object a constructor has after its initialiser list cap(N), len(0):
\* impl is not initialised, its bytes are indeterminate.
Uninitialised == [stack |-> StackBits, heap |-> Wild, cap |-> N, len |-> 0]

\* A copy constructor that copies the members: impl, cap and len of rhs.
SmallVecCopyMemberwise(rhs, h, alloc) == Ret(rhs, h)

\* SmallVec(const SmallVec &rhs): cap(N), len(0), then
\* extendCopying(rhs.begin(), rhs.end()).
SmallVecCopy(rhs, h, alloc) ==
  extendCopying(Uninitialised, h, Elements(rhs, h), alloc, NoOob)

\* A move constructor that takes the members of rhs and leaves rhs as it is.
SmallVecMoveMemberwise(rhs, h, alloc) ==
  [v |-> rhs, h |-> h, thrown |-> FALSE, rhs |-> rhs]

\* SmallVec(SmallVec &&rhs) noexcept: cap(N), len(0), then
\* extendConsuming(rhs.begin(), rhs.end()), whose std::swap_ranges leaves in
\* rhs what the new object's storage held.  The result is [v, h, thrown, rhs].
SmallVecMove(rhs, h, alloc) ==
  LET xs == Elements(rhs, h)
      r == reserveExact(Uninitialised, h, Len(xs), alloc)
      old == [i \in 1 .. Len(xs) |-> At(r.v, r.h, i - 1)]
      b == extendConsuming(Uninitialised, h, xs, alloc, NoOob)
      a == StoreRange(onHeap(rhs), rhs, b.h, 0, old, NoOob)
  IN IF b.thrown THEN [v |-> b.v, h |-> b.h, thrown |-> TRUE, rhs |-> rhs]
     ELSE [v |-> b.v, h |-> a.h, thrown |-> FALSE, rhs |-> a.v]

\* sizeof(T *) and sizeof(std::size_t), in bytes.
SizeofPtr == 8

\* sizeof(SmallVec): the union of T[N] and T *, then cap and len.
SizeofSmallVec ==
  (IF N * SizeofT >= SizeofPtr THEN N * SizeofT ELSE SizeofPtr) + 2 * SizeofPtr

\* std::size_t takenSize() const
takenSize(v) ==
  IF onStack(v) THEN SizeofSmallVec
  ELSE SizeofSmallVec + (v.cap + 1) * SizeofT

\* pop without the test len > 0.
popUnchecked(v, h) == Ret([v EXCEPT !.len = Sub(@, 1)], h)

\* void pop()
pop(v, h) == IF v.len > 0 THEN Ret([v EXCEPT !.len = @ - 1], h) ELSE Ret(v, h)

\* ~SmallVec()
Destructor(v, h) == IF onHeap(v) THEN Ret(v, Free(h, v.heap)) ELSE Ret(v, h)

\* The array constructor with M < N for M <= N: an array of exactly N
\* elements goes to a heap block of capacity N.
SmallVecFromArrayStrict(data, h, alloc) ==
  LET M == Len(data) IN
  IF M < N
    THEN LET st == [i \in 0 .. N - 1 |-> IF i < M THEN data[i + 1] ELSE Dflt] IN
         Ret([stack |-> st, heap |-> HeapBits(st), cap |-> N, len |-> M], h)
  ELSE IF alloc = "fail" THEN Throw(SmallVec, h)
  ELSE LET memory == NextBlock(h)
           h1 == Malloc(h, M)
       IN Ret([stack |-> StackBits, heap |-> memory, cap |-> M, len |-> M],
              [h1 EXCEPT !.data[memory] = data])

\* SmallVec(T(&&data)[M]): the constructor from a literal array, M = Len(data).
SmallVecFromArray(data, h, alloc) ==
  LET M == Len(data) IN
  IF M <= N
    THEN LET st == [i \in 0 .. N - 1 |-> IF i < M THEN data[i + 1] ELSE Dflt] IN
         Ret([stack |-> st, heap |-> HeapBits(st), cap |-> N, len |-> M], h)
  ELSE IF alloc = "fail" THEN Throw(SmallVec, h)
  ELSE LET memory == NextBlock(h)
           h1 == Malloc(h, M)
       IN Ret([stack |-> StackBits, heap |-> memory, cap |-> M, len |-> M],
              [h1 EXCEPT !.data[memory] = data])

\* std::vector<T> intoVector() &&: the result is [v, h, result].
intoVector(v, h) ==
  IF onStack(v)
    THEN LET st == [i \in 0 .. N - 1 |-> IF i < v.len THEN Dflt ELSE v.stack[i]] IN
         [v |-> [v EXCEPT !.stack = st, !.heap = HeapBits(st)], h |-> h,
          result |-> Elements(v, h)]
  ELSE [v |-> v, h |-> h, result |-> Elements(v, h)]


(* ------------------------------ state --------------------------------- *)

VARIABLES
  vec,     \* the SmallVec object: [stack, heap, cap, len]
  mem,     \* the C heap
  thrown,  \* whether the last call returned by throwing
  pc,      \* "alive", "consumed" (after intoVector() &&) or "destroyed"
  lastOp,  \* the name of the last call
  pre,     \* what the caller could observe of the object before the last call
  ghost,   \* the sequence the calls so far describe: what was pushed or
           \* appended and not popped, in order
  result,  \* the vector intoVector() returned
  failedBlock,  \* the block the object owned when a realloc of it last
                \* failed; Null while no realloc has failed
  vecB,    \* a second SmallVec object, copy- or move-constructed from vec
  pcB,     \* "unborn" until the second object is constructed, then "alive"
  ghostB,  \* the sequence the calls on the second object describe
  changes, \* the number of push calls so far that changed capacity()
  npt      \* a reserve call in progress, step by step: [pc, additional, n,
           \* result], pc being "idle" (no such call), "call", "test" and
           \* "body" (the loop of nextPowerOfTwo), "grow" or "done"

\* The variables only the specifications of two objects, of counted pushes
\* and of the stepwise reserve call change.
others == <<vecB, pcB, ghostB, changes, npt>>

vars == <<vec, mem, thrown, pc, lastOp, pre, ghost, result, failedBlock,
          vecB, pcB, ghostB, changes, npt>>

\* size(), capacity(), onHeap(), whether ptr() is owned storage, and the
\* elements operator[] returns.
Observe(v, h) ==
  [len |-> size(v), cap |-> capacity(v), heap |-> onHeap(v),
   live |-> StorageLive(v, h), elems |-> Elements(v, h)]

\* No second object, no push counted, no stepwise reserve call.
Idle == [pc |-> "idle", additional |-> 0, n |-> 0, result |-> 1]
NoOthers ==
  /\ vecB = SmallVec
  /\ pcB = "unborn"
  /\ ghostB = <<>>
  /\ changes = 0
  /\ npt = Idle

Init ==
  /\ vec = SmallVec
  /\ mem = EmptyHeap
  /\ thrown = FALSE
  /\ pc = "alive"
  /\ lastOp = "SmallVec"
  /\ pre = Observe(SmallVec, EmptyHeap)
  /\ ghost = <<>>
  /\ result = <<>>
  /\ failedBlock = Null
  /\ NoOthers

\* The ranges handed to extendConsuming/extendCopying: of every length up to
\* MaxExt, the two ranges whose values alternate (1, 2, 1, .. and 2, 1, 2, ..).
Ranges ==
  {[i \in 1 .. k |-> IF (i + s) % 2 = 0 THEN 1 ELSE 2] : k \in 0 .. MaxExt, s \in 0 .. 1}

\* The literal arrays handed to the array constructor.
Literals == UNION {[1 .. k -> Values] : k \in 1 .. MaxLit}

\* A call is explored while the object is alive, the program has not run
\* into undefined behaviour and the heap can still hand out a block.
Callable == pc = "alive" /\ ~mem.ub
\* "moved" is an outcome of realloc alone, which only a Heap buffer calls.
CanAlloc(alloc) == Unused(mem) /= {} /\ (alloc = "moved" => onHeap(vec))

\* The outcomes of the writes of k elements at ptr() + len that follow the
\* reserving step r of a call: any of OobOutcomes when they run past the end
\* of the inline array, nothing to choose otherwise.
OobOf(r, k) ==
  IF ~r.thrown /\ onStack(r.v) /\ r.v.len + k > N THEN OobOutcomes ELSE {NoOob}

\* The call op returned r; g is the sequence the calls describe after it.
Returns(op, r, g) ==
  /\ vec' = r.v
  /\ mem' = r.h
  /\ thrown' = r.thrown
  /\ lastOp' = op
  /\ pre' = Observe(vec, mem)
  /\ ghost' = IF r.thrown THEN ghost ELSE g
  /\ failedBlock' = IF r.thrown /\ onHeap(vec) THEN vec.heap ELSE failedBlock
  /\ UNCHANGED <<pc, result, others>>

Push(x, alloc) ==
  /\ Callable /\ CanAlloc(alloc)
  /\ vec.len < MaxLen
  /\ \E oob \in OobOf(IF vec.len = vec.cap THEN reserve(vec, mem, 1, alloc)
                                             ELSE Ret(vec, mem), 1) :
       Returns("push", push(vec, mem, x, alloc, oob), Append(ghost, x))

Pop ==
  /\ Callable
  /\ Returns("pop", pop(vec, mem),
             IF ghost = <<>> THEN ghost ELSE SubSeq(ghost, 1, Len(ghost) - 1))

Reserve(additional, alloc) ==
  /\ Callable /\ CanAlloc(alloc)
  /\ vec.len + additional <= MaxCap
  /\ Returns("reserve", reserve(vec, mem, additional, alloc), ghost)

ReserveExact(additional, alloc) ==
  /\ Callable /\ CanAlloc(alloc)
  /\ vec.len + additional <= MaxCap
  /\ Returns("reserveExact", reserveExact(vec, mem, additional, alloc), ghost)

Shrink(alloc) ==
  /\ Callable /\ CanAlloc(alloc)
  /\ Returns("shrink", shrink(vec, mem, alloc), ghost)

Grow(newSize, alloc) ==
  /\ Callable /\ CanAlloc(alloc)
  /\ newSize >= vec.len
  /\ Returns("grow", grow(vec, mem, newSize, alloc), ghost)

ExtendConsuming(xs, alloc) ==
  /\ Callable /\ CanAlloc(alloc)
  /\ vec.len + Len(xs) <= MaxLen
  /\ \E oob \in OobOf(reserveExact(vec, mem, Len(xs), alloc), Len(xs)) :
       Returns("extendConsuming", extendConsuming(vec, mem, xs, alloc, oob), ghost \o xs)

ExtendCopying(xs, alloc) ==
  /\ Callable /\ CanAlloc(alloc)
  /\ vec.len + Len(xs) <= MaxLen
  /\ \E oob \in OobOf(reserveExact(vec, mem, Len(xs), alloc), Len(xs)) :
       Returns("extendCopying", extendCopying(vec, mem, xs, alloc, oob), ghost \o xs)

\* The object goes out of scope: its destructor runs, whatever came before.
Destroy ==
  /\ pc \in {"alive", "consumed"}
  /\ LET r == Destructor(vec, mem) IN
       /\ vec' = r.v
       /\ mem' = r.h
  /\ pc' = "destroyed"
  /\ lastOp' = "~SmallVec"
  /\ pre' = Observe(vec, mem)
  /\ thrown' = FALSE
  /\ UNCHANGED <<ghost, result, failedBlock, others>>

IntoVector ==
  /\ Callable
  /\ LET r == intoVector(vec, mem) IN
       /\ vec' = r.v
       /\ mem' = r.h
       /\ result' = r.result
  /\ pc' = "consumed"
  /\ lastOp' = "intoVector"
  /\ pre' = Observe(vec, mem)
  /\ thrown' = FALSE
  /\ UNCHANGED <<ghost, failedBlock, others>>

(* ----------------------- actions on two objects ----------------------- *)
\* The objects vec and vecB share the heap mem.

\* push on v can run: the heap has a block left if the call needs one.
\* The allocation outcome matters only when len == cap, "moved" only to a
\* Heap buffer, and only malloc and a realloc that moves take a new block.
Fits(v, alloc) ==
  /\ alloc = "moved" => (v.len = v.cap /\ onHeap(v) /\ Unused(mem) /= {})
  /\ alloc = "ok" => (v.len /= v.cap \/ onHeap(v) \/ Unused(mem) /= {})

PushA(x, alloc) ==
  /\ Callable /\ Fits(vec, alloc)
  /\ vec.len < MaxLenTwo
  /\ \E oob \in OobOf(IF vec.len = vec.cap THEN reserve(vec, mem, 1, alloc)
                                             ELSE Ret(vec, mem), 1) :
       Returns("push", push(vec, mem, x, alloc, oob), Append(ghost, x))

\* The call op on the second object returned r; g is the sequence the calls
\* on it describe after it.
ReturnsB(op, r, g) ==
  /\ vecB' = r.v
  /\ mem' = r.h
  /\ thrown' = r.thrown
  /\ lastOp' = op
  /\ pre' = Observe(vecB, mem)
  /\ ghostB' = g
  /\ UNCHANGED <<vec, pc, ghost, result, failedBlock, pcB, changes, npt>>

PushB(x, alloc) ==
  /\ pcB = "alive" /\ ~mem.ub /\ Fits(vecB, alloc)
  /\ vecB.len < MaxLenTwo
  /\ \E oob \in OobOf(IF vecB.len = vecB.cap THEN reserve(vecB, mem, 1, alloc)
                                               ELSE Ret(vecB, mem), 1) :
       ReturnsB("pushB", push(vecB, mem, x, alloc, oob), Append(ghostB, x))

PopB ==
  /\ pcB = "alive" /\ ~mem.ub
  /\ ReturnsB("popB", pop(vecB, mem),
              IF ghostB = <<>> THEN ghostB ELSE SubSeq(ghostB, 1, Len(ghostB) - 1))

\* SmallVec B(A): the second object is copy-constructed from the first.
CopyConstruct ==
  /\ Callable /\ pcB = "unborn"
  /\ vec.len > N => Unused(mem) /= {}
  /\ LET r == SmallVecCopy(vec, mem, "ok") IN
       /\ vecB' = r.v
       /\ mem' = r.h
       /\ thrown' = r.thrown
  /\ pcB' = "alive"
  /\ lastOp' = "copy"
  /\ pre' = Observe(vec, mem)
  /\ ghostB' = ghost
  /\ UNCHANGED <<vec, pc, ghost, result, failedBlock, changes, npt>>

\* SmallVec B(std::move(A)): the second object is move-constructed from the
\* first, which stays alive until its destructor runs.
MoveConstruct ==
  /\ Callable /\ pcB = "unborn"
  /\ vec.len > N => Unused(mem) /= {}
  /\ LET r == SmallVecMove(vec, mem, "ok") IN
       /\ vecB' = r.v
       /\ vec' = r.rhs
       /\ mem' = r.h
       /\ thrown' = r.thrown
  /\ pcB' = "alive"
  /\ lastOp' = "move"
  /\ pre' = Observe(vec, mem)
  /\ ghostB' = ghost
  /\ UNCHANGED <<pc, ghost, result, failedBlock, changes, npt>>

(* --------------------------- counted pushes --------------------------- *)

\* push, counting the calls that return with another capacity().
PushCounted(x, alloc) ==
  /\ Callable /\ Fits(vec, alloc)
  /\ vec.len < MaxPushes
  /\ \E oob \in OobOf(IF vec.len = vec.cap THEN reserve(vec, mem, 1, alloc)
                                             ELSE Ret(vec, mem), 1) :
       LET r == push(vec, mem, x, alloc, oob) IN
         /\ vec' = r.v
         /\ mem' = r.h
         /\ thrown' = r.thrown
         /\ changes' = changes + (IF capacity(r.v) /= capacity(vec) THEN 1 ELSE 0)
  /\ lastOp' = "push"
  /\ pre' = Observe(vec, mem)
  /\ ghost' = Append(ghost, x)
  /\ UNCHANGED <<pc, result, failedBlock, vecB, pcB, ghostB, npt>>

(* ----------------------- reserve, step by step ------------------------ *)
\* One call reserve(npt.additional) on vec, one step per action.

\* if (cap - len >= additional) return; else nextPowerOfTwo(len + additional)
\* starts with result = 1.
ReserveEnter ==
  /\ npt.pc = "call"
  /\ npt' = IF Sub(vec.cap, vec.len) >= npt.additional
              THEN [npt EXCEPT !.pc = "done"]
              ELSE [npt EXCEPT !.pc = "test", !.result = 1,
                               !.n = Add(vec.len, npt.additional)]
  /\ UNCHANGED <<vec, mem, thrown, pc, lastOp, pre, ghost, result, failedBlock,
                 vecB, pcB, ghostB, changes>>

\* while (n > result)
LoopTest ==
  /\ npt.pc = "test"
  /\ npt' = [npt EXCEPT !.pc = IF npt.n > npt.result THEN "body" ELSE "grow"]
  /\ UNCHANGED <<vec, mem, thrown, pc, lastOp, pre, ghost, result, failedBlock,
                 vecB, pcB, ghostB, changes>>

\* result <<= 1, in std::size_t
LoopBody ==
  /\ npt.pc = "body"
  /\ npt' = [npt EXCEPT !.pc = "test", !.result = (npt.result * 2) % SizeMod]
  /\ UNCHANGED <<vec, mem, thrown, pc, lastOp, pre, ghost, result, failedBlock,
                 vecB, pcB, ghostB, changes>>

\* grow(nextPowerOfTwo(len + additional)), and reserve returns.
ReserveGrow ==
  /\ npt.pc = "grow"
  /\ LET r == grow(vec, mem, npt.result, "ok") IN
       /\ vec' = r.v
       /\ mem' = r.h
       /\ thrown' = r.thrown
  /\ npt' = [npt EXCEPT !.pc = "done"]
  /\ lastOp' = "reserve"
  /\ pre' = Observe(vec, mem)
  /\ UNCHANGED <<pc, ghost, result, failedBlock, vecB, pcB, ghostB, changes>>

(* -------------------------- specifications ---------------------------- *)

\* What an allocation may do; with an allocator that never fails.
AllocOutcomes == {"ok", "moved", "fail"}
AllocSucceeds == {"ok", "moved"}

\* Every method, with an allocator that may fail.
Next ==
  \/ \E x \in Values, alloc \in AllocOutcomes : Push(x, alloc)
  \/ Pop
  \/ \E a \in 1 .. MaxAdd, alloc \in AllocOutcomes : Reserve(a, alloc)
  \/ \E a \in 1 .. MaxAdd, alloc \in AllocOutcomes : ReserveExact(a, alloc)
  \/ \E alloc \in AllocOutcomes : Shrink(alloc)
  \/ \E n \in 0 .. MaxCap, alloc \in AllocOutcomes : Grow(n, alloc)
  \/ \E xs \in Ranges, alloc \in AllocOutcomes : ExtendConsuming(xs, alloc)
  \/ \E xs \in Ranges, alloc \in AllocOutcomes : ExtendCopying(xs, alloc)
  \/ Destroy

Spec == Init /\ [][Next]_vars

\* Every method, with an allocator that never fails.
NextNoFail ==
  \/ \E x \in Values, alloc \in AllocSucceeds : Push(x, alloc)
  \/ Pop
  \/ \E a \in 1 .. MaxAdd, alloc \in AllocSucceeds : Reserve(a, alloc)
  \/ \E a \in 1 .. MaxAdd, alloc \in AllocSucceeds : ReserveExact(a, alloc)
  \/ \E alloc \in AllocSucceeds : Shrink(alloc)
  \/ \E n \in 0 .. MaxCap, alloc \in AllocSucceeds : Grow(n, alloc)
  \/ \E xs \in Ranges, alloc \in AllocSucceeds : ExtendConsuming(xs, alloc)
  \/ \E xs \in Ranges, alloc \in AllocSucceeds : ExtendCopying(xs, alloc)
  \/ Destroy

SpecNoFail == Init /\ [][NextNoFail]_vars

\* Every method but grow, with an allocator that never fails.
NextNoGrow ==
  \/ \E x \in Values, alloc \in AllocSucceeds : Push(x, alloc)
  \/ Pop
  \/ \E a \in 1 .. MaxAdd, alloc \in AllocSucceeds : Reserve(a, alloc)
  \/ \E a \in 1 .. MaxAdd, alloc \in AllocSucceeds : ReserveExact(a, alloc)
  \/ \E alloc \in AllocSucceeds : Shrink(alloc)
  \/ \E xs \in Ranges, alloc \in AllocSucceeds : ExtendConsuming(xs, alloc)
  \/ \E xs \in Ranges, alloc \in AllocSucceeds : ExtendCopying(xs, alloc)
  \/ Destroy

SpecNoGrow == Init /\ [][NextNoGrow]_vars

\* push, pop, reserve, reserveExact, shrink, grow and the destructor, with an
\* allocator that never fails.
NextNoExtend ==
  \/ \E x \in Values, alloc \in AllocSucceeds : Push(x, alloc)
  \/ Pop
  \/ \E a \in 1 .. MaxAdd, alloc \in AllocSucceeds : Reserve(a, alloc)
  \/ \E a \in 1 .. MaxAdd, alloc \in AllocSucceeds : ReserveExact(a, alloc)
  \/ \E alloc \in AllocSucceeds : Shrink(alloc)
  \/ \E n \in 0 .. MaxCap, alloc \in AllocSucceeds : Grow(n, alloc)
  \/ Destroy

SpecNoExtend == Init /\ [][NextNoExtend]_vars

\* Only push on a default-constructed object, then its destructor, with an
\* allocator that never fails.
NextPush ==
  \/ \E x \in Values, alloc \in AllocSucceeds : Push(x, alloc)
  \/ Destroy

SpecPush == Init /\ [][NextPush]_vars

\* An object constructed from a literal array, then intoVector() && and the
\* destructor.
InitLit ==
  \E data \in Literals :
    LET r == SmallVecFromArray(data, EmptyHeap, "ok") IN
      /\ vec = r.v
      /\ mem = r.h
      /\ thrown = FALSE
      /\ pc = "alive"
      /\ lastOp = "SmallVecFromArray"
      /\ pre = Observe(SmallVec, EmptyHeap)
      /\ ghost = data
      /\ result = <<>>
      /\ failedBlock = Null
      /\ NoOthers

NextLit == IntoVector \/ Destroy

SpecLit == InitLit /\ [][NextLit]_vars

\* Two objects: the first is built by push and pop, the second is
\* copy-constructed from it, and push and pop go on on both; the allocator
\* never fails.
NextCopy ==
  \/ \E x \in Values, alloc \in AllocSucceeds : PushA(x, alloc)
  \/ Pop
  \/ CopyConstruct
  \/ \E x \in Values, alloc \in AllocSucceeds : PushB(x, alloc)
  \/ PopB

SpecCopy == Init /\ [][NextCopy]_vars

\* Two objects: the first is built by push and pop, the second is
\* move-constructed from it, and the first is destroyed at any time; the
\* allocator never fails.
NextMove ==
  \/ \E x \in Values, alloc \in AllocSucceeds : PushA(x, alloc)
  \/ Pop
  \/ MoveConstruct
  \/ Destroy

SpecMove == Init /\ [][NextMove]_vars

\* Only push on a default-constructed object, the pushes that change
\* capacity() being counted; the allocator never fails.
NextGrowth == \E x \in Values, alloc \in AllocSucceeds : PushCounted(x, alloc)

SpecGrowth == Init /\ [][NextGrowth]_vars

\* One call of reserve(additional) on a default-constructed object, for
\* every additional a std::size_t holds, run step by step; a call that can
\* take a step takes it.
InitReserveSteps ==
  /\ vec = SmallVec
  /\ mem = EmptyHeap
  /\ thrown = FALSE
  /\ pc = "alive"
  /\ lastOp = "SmallVec"
  /\ pre = Observe(SmallVec, EmptyHeap)
  /\ ghost = <<>>
  /\ result = <<>>
  /\ failedBlock = Null
  /\ vecB = SmallVec
  /\ pcB = "unborn"
  /\ ghostB = <<>>
  /\ changes = 0
  /\ \E a \in 0 .. SizeMod - 1 : npt = [Idle EXCEPT !.pc = "call", !.additional = a]

NextReserveSteps == ReserveEnter \/ LoopTest \/ LoopBody \/ ReserveGrow

SpecReserveSteps ==
  InitReserveSteps /\ [][NextReserveSteps]_vars /\ WF_vars(NextReserveSteps)


(* ------------------------------ claims -------------------------------- *)

Max(a, b) == IF a >= b THEN a ELSE b

\* The blocks that are allocated and not released.
LiveBlocks == {b \in BlockIds : mem.blk[b] = "live"}

\* C1: in every state reached from a default-constructed object by push,
\* pop, reserve, reserveExact, shrink, extendConsuming, extendCopying and
\* grow(newSize >= size()), capacity() >= N.
C1_CapacityAtLeastN == (pc = "alive" /\ ~mem.ub) => capacity(vec) >= N

\* C2: in every state reached from a default-constructed object by push,
\* pop, reserve, reserveExact, shrink, extendConsuming and extendCopying,
\* 0 <= size() <= capacity().
C2_SizeWithinCapacity ==
  (pc = "alive" /\ ~mem.ub) => (0 <= size(vec) /\ size(vec) <= capacity(vec))

\* C3: with an allocator that never fails, after every call of push, pop,
\* reserve, reserveExact, shrink or grow the object owns exactly one live
\* block if it is Heap and none if it is Inline, no block is released twice
\* (and nothing that is no block is released), and after the destructor the
\* number of releases equals the number of allocations.
C3_OneAllocationReleasedOnce ==
  /\ pc = "alive" => LiveBlocks = (IF onHeap(vec) THEN {vec.heap} ELSE {})
  /\ \A b \in BlockIds : mem.rel[b] <= 1
  /\ mem.wild = 0
  /\ pc = "destroyed" => NumFrees(mem) = NumAllocs(mem)

\* C4: after pushing the values v_0 .. v_{k-1} onto a default-constructed
\* object, operator[](i) = v_i for every i < k, across the Inline->Heap
\* transition and every later Heap->Heap growth.
C4_PushKeepsOrderAndValues ==
  pc = "alive" =>
  /\ Len(ghost) = size(vec)
  /\ \A i \in 0 .. Len(ghost) - 1 : At(vec, mem, i) = ghost[i + 1]

\* C4 witness: more than N values were pushed, and the buffer has grown from
\* one heap capacity to a larger one.
C4_Witness ==
  /\ lastOp = "push"
  /\ Len(ghost) > nextPowerOfTwo(N + 1)
  /\ onHeap(vec) /\ pre.heap /\ capacity(vec) > pre.cap
  /\ \E i, j \in 1 .. Len(ghost) : ghost[i] /= ghost[j]

\* C5: shrink() on a Heap buffer with size() <= N leaves onStack() true,
\* size() unchanged and every operator[](i), i < size(), as it was.
C5_ShrinkToInlineKeepsElements ==
  (lastOp = "shrink" /\ pre.heap /\ pre.len <= N) =>
    /\ onStack(vec)
    /\ size(vec) = pre.len
    /\ Elements(vec, mem) = pre.elems

\* C5 witness: a Heap buffer that held N values was shrunk.
C5_Witness ==
  /\ lastOp = "shrink" /\ pre.heap /\ pre.len = N
  /\ pre.elems = ghost /\ \A i \in 1 .. N : ghost[i] \in Values
  /\ onStack(vec)

\* C6: after shrink() on a Heap buffer, capacity() = max(size(), N).
C6_ShrinkCapacity ==
  (lastOp = "shrink" /\ pre.heap /\ ~thrown /\ ~mem.ub) =>
    capacity(vec) = Max(size(vec), N)

\* C7: applying only push to a default-constructed object, after the k-th
\* push size() = k, capacity() >= size() and capacity() >= N.
C7_PushSizeAndCapacity ==
  /\ size(vec) = Len(ghost)
  /\ capacity(vec) >= size(vec)
  /\ capacity(vec) >= N

\* C7 witness: more than N pushes, the last of which grew the buffer.
C7_Witness ==
  /\ lastOp = "push" /\ size(vec) > N + 1 /\ capacity(vec) > pre.cap

\* C8: when the allocation fails while a Heap buffer is resized, the block
\* the buffer owned is released exactly once over the buffer's lifetime,
\* destructor included.
C8_FailedResizeReleasesOnce ==
  (pc = "destroyed" /\ failedBlock /= Null) => mem.rel[failedBlock] = 1

\* C9: when an allocation fails during a capacity transition, the call
\* throws and the buffer is as before: size(), capacity(), representation
\* and the elements are unchanged and still readable from live storage.
C9_FailureKeepsState ==
  thrown =>
    /\ size(vec) = pre.len
    /\ capacity(vec) = pre.cap
    /\ onHeap(vec) = pre.heap
    /\ StorageLive(vec, mem)
    /\ Elements(vec, mem) = pre.elems

\* C10: constructing from a literal array of k values and calling
\* intoVector() yields the literal: same length, order and values, for
\* k <= N and for k > N.
C10_LiteralRoundTrip ==
  lastOp = "intoVector" => (Len(result) = Len(ghost) /\ result = ghost)

\* C10 witness: the round trip of a literal longer than N, held on the heap.
C10_Witness ==
  /\ pc = "consumed" /\ Len(ghost) > N /\ pre.heap
  /\ result = ghost

\* C11: after B is copy-constructed from A, B holds A's elements, every push
\* and pop on one of the two leaves size() and the elements of the other as
\* they were, and the two never share a heap allocation.
C11_CopyIsIndependent ==
  pcB = "alive" =>
    /\ lastOp = "copy" => Elements(vecB, mem) = pre.elems
    /\ Elements(vec, mem) = ghost
    /\ Elements(vecB, mem) = ghostB
    /\ StorageLive(vec, mem) /\ StorageLive(vecB, mem)
    /\ ~(onHeap(vec) /\ onHeap(vecB) /\ vec.heap = vecB.heap)

\* C11 witness: both objects are Heap, the copy holds more than N elements,
\* and a pop and a push on A after the copy have made the two differ.
C11_Witness ==
  /\ pcB = "alive" /\ lastOp = "push"
  /\ onHeap(vec) /\ onHeap(vecB)
  /\ Len(ghostB) > N /\ Len(ghost) = Len(ghostB) /\ ghost /= ghostB
  /\ Elements(vecB, mem) = ghostB

\* C12: after B is move-constructed from A, B holds A's former elements in
\* order, and A's destructor releases only A's own allocation, at most once:
\* it leaves B's size() and elements as they were and B's allocation live.
C12_MoveThenDestroySource ==
  pcB = "alive" =>
    /\ lastOp = "move" => Elements(vecB, mem) = pre.elems
    /\ Elements(vecB, mem) = ghostB
    /\ StorageLive(vecB, mem)
    /\ \A b \in BlockIds : mem.rel[b] <= 1
    /\ mem.wild = 0 /\ ~mem.ub
    /\ pc = "destroyed" => LiveBlocks = (IF onHeap(vecB) THEN {vecB.heap} ELSE {})

\* C12 witness: A was Heap with more than N elements when B was
\* move-constructed from it, and A has been destroyed since.
C12_Witness ==
  /\ pcB = "alive" /\ pc = "destroyed" /\ lastOp = "~SmallVec"
  /\ onHeap(vec) /\ mem.rel[vec.heap] = 1
  /\ onHeap(vecB) /\ Len(ghostB) > N /\ Elements(vecB, mem) = ghostB

\* The smallest power of two that is >= n.
SmallestPowerOfTwo(n) ==
  CHOOSE p \in {2 ^ e : e \in 0 .. SizeBits} :
    p >= n /\ \A q \in {2 ^ e : e \in 0 .. SizeBits} : q >= n => p <= q

\* C13: in any reachable state, reserve(additional) changes nothing when
\* capacity() - size() >= additional; otherwise it returns with capacity()
\* the smallest power of two >= size() + additional, and with size() and the
\* elements unchanged.
C13_ReserveCapacity ==
  [][\A a \in 1 .. MaxAdd, alloc \in AllocSucceeds :
       Reserve(a, alloc) =>
         IF capacity(vec) - size(vec) >= a
           THEN vec' = vec /\ mem' = mem
           ELSE /\ capacity(vec') = SmallestPowerOfTwo(size(vec) + a)
                /\ size(vec') = size(vec)
                /\ Elements(vec', mem') = Elements(vec, mem)]_vars

\* C14: reserveExact(additional) changes nothing when capacity() - size()
\* >= additional, and otherwise returns with capacity() = size() +
\* additional exactly; in both cases capacity() - size() >= additional on
\* return.
C14_ReserveExactCapacity ==
  [][\A a \in 1 .. MaxAdd, alloc \in AllocSucceeds :
       ReserveExact(a, alloc) =>
         /\ IF capacity(vec) - size(vec) >= a
              THEN vec' = vec /\ mem' = mem
              ELSE capacity(vec') = size(vec) + a
         /\ capacity(vec') - size(vec') >= a]_vars

\* C15: extendConsuming and extendCopying, given a range of k elements,
\* return with size() increased by k, the elements [0, old size) as they
\* were, and element old size + j equal to the j-th element of the range.
C15_ExtendAppends ==
  [][\A xs \in Ranges, alloc \in AllocSucceeds :
       (ExtendConsuming(xs, alloc) \/ ExtendCopying(xs, alloc)) =>
         /\ size(vec') = size(vec) + Len(xs)
         /\ \A i \in 0 .. size(vec) - 1 : At(vec', mem', i) = At(vec, mem, i)
         /\ \A j \in 0 .. Len(xs) - 1 :
              At(vec', mem', size(vec) + j) = xs[j + 1]]_vars

\* The least e with 2^e >= k: the ceiling of the binary logarithm of k.
CeilLog2(k) ==
  CHOOSE e \in 0 .. SizeBits :
    2 ^ e >= k /\ \A f \in 0 .. SizeBits : 2 ^ f >= k => e <= f

\* C16: after k consecutive pushes onto a default-constructed object, at
\* most ceil(log2(k)) + 1 of them have changed capacity(); every push that
\* changes capacity() sets it to a power of two, and every such growth after
\* the first at least doubles capacity().
C16_AmortisedGrowth ==
  /\ Len(ghost) >= 1 => changes <= CeilLog2(Len(ghost)) + 1
  /\ (lastOp = "push" /\ capacity(vec) /= pre.cap) =>
       /\ capacity(vec) = SmallestPowerOfTwo(capacity(vec))
       /\ changes > 1 => capacity(vec) >= 2 * pre.cap

\* C16 witness: a push has grown the buffer for the third time.
C16_Witness ==
  /\ lastOp = "push" /\ capacity(vec) /= pre.cap
  /\ changes = 3 /\ size(vec) = Len(ghost)

\* C17: pop() decrements size() by one when size() > 0 and does nothing when
\* size() = 0; capacity(), the representation, the owned allocation and the
\* elements [0, new size) are as they were.
C17_PopOnlyDecrements ==
  [][Pop =>
       /\ size(vec') = (IF size(vec) > 0 THEN size(vec) - 1 ELSE 0)
       /\ capacity(vec') = capacity(vec)
       /\ onHeap(vec') = onHeap(vec)
       /\ onHeap(vec) => vec'.heap = vec.heap
       /\ mem' = mem
       /\ \A i \in 0 .. size(vec') - 1 : At(vec', mem', i) = At(vec, mem, i)]_vars

\* C17 witness: pop() has taken the last element off a Heap buffer of more
\* than N elements.
C17_Witness ==
  /\ lastOp = "pop" /\ pre.heap /\ pre.len > N
  /\ size(vec) = pre.len - 1
  /\ Elements(vec, mem) = SubSeq(pre.elems, 1, pre.len - 1)
  /\ \A i \in 1 .. pre.len : pre.elems[i] \in Values

\* C18: takenSize() is sizeof(SmallVec) while the buffer is Inline and
\* sizeof(SmallVec) + capacity() * sizeof(T) while it is Heap.
C18_TakenSize ==
  pc = "alive" =>
    takenSize(vec) =
      (IF onHeap(vec) THEN SizeofSmallVec + capacity(vec) * SizeofT
       ELSE SizeofSmallVec)

\* C19: whenever the buffer is Inline, size() <= N, so that push and
\* extendConsuming/extendCopying never write the inline array at an index
\* >= N (no such call runs into undefined behaviour); this holds after
\* shrink() has returned a Heap buffer to Inline too.
C19_InlineWritesInBounds ==
  pc = "alive" =>
    /\ onStack(vec) => size(vec) <= N
    /\ lastOp \in {"push", "extendConsuming", "extendCopying"} => ~mem.ub

\* C20: reserve(additional) terminates for every additional a std::size_t
\* of SizeBits bits holds: the loop of nextPowerOfTwo(n) reaches its exit
\* for every n, those above 2^(SizeBits - 1) included, and the call returns.
C20_ReserveTerminates == <>(npt.pc = "done")

====
